---- MODULE Spec2Model ----
(***************************************************************************)
(* Authentication and token-lifecycle subsystem of felix-api:              *)
(* AuthService (OTP send/consume with resend cooldown, refresh, logout,    *)
(* revocation, signup, password login) and the Strapi identity provider    *)
(* client.  Every awaited call of a handler is one atomic step of the      *)
(* request (process) that runs it; requests interleave at awaits only.     *)
(***************************************************************************)
EXTENDS Integers, FiniteSets, Sequences, TLC

VARIABLES
    now,        \* wall clock (Date.now()), in abstract ticks
    config,     \* AppConfig, fixed at construction
    acl,        \* AclRepository contents: email -> role ("" when no entry)
    db,         \* the "keyv.otp" Keyv store: OTP codes and cooldown marks
    clients,    \* the client registry: clientId -> record
    blocklist,  \* BlocklistRepository: jti -> revoked-until (0 when no entry)
    held,       \* claims of the issued tokens that callers still hold
    revokedLog, \* history: jti -> expires-at it was first revoked with (0: never)
    consumed,   \* history: code -> a useOtp of it has succeeded since it was last stored
    uses,       \* history: code -> successful useOtp calls that read its current record
    call        \* per request: the running handler, its position and its locals

envVars == <<config, acl, clients>>
otpVars == <<db, consumed, uses>>
tokenVars == <<blocklist, held, revokedLog>>
vars == <<now, envVars, otpVars, tokenVars, call>>

----------------------------------------------------------------------------
(* Bounds of the model *)

NumProcs == 2
NumCodes == 2
NumClients == 1
MaxTime == 3
MaxJti == 3
MaxTtl == 2

Procs == 1..NumProcs
\* the one request followed where requests share no state
AuthProcs == {p \in Procs : \A q \in Procs : p <= q}
Codes == 1..NumCodes
Clients == 1..NumClients
Jtis == 1..MaxJti

----------------------------------------------------------------------------
(* Values *)

Emails == {"a@x.com", "b@x.com"}
RoleUser == "user"
RoleAgent == "agent"
Roles == {RoleUser, RoleAgent}
NoRole == ""

Undefined == [undefined |-> TRUE]
Null == [null |-> TRUE]
Idle == [op |-> "idle", pc |-> "idle"]

userProfilKeys ==
    {"id", "clientId", "username", "firstName", "lastName", "email",
     "confirmed", "blocked", "createdAt", "updatedAt"}

\* _.pick(object, keys): the object restricted to the listed keys it has
Pick(obj, keys) == [k \in (DOMAIN obj) \cap keys |-> obj[k]]

\* { ...a, ...b }: the keys of both, b's value where both have the key
Spread(a, b) ==
    [k \in (DOMAIN a) \cup (DOMAIN b) |-> IF k \in DOMAIN b THEN b[k] ELSE a[k]]

Email(rec) == IF "email" \in DOMAIN rec THEN rec.email ELSE ""

\* Records the client registry can return: clientId always, the rest optional
RegistryClients(ids) ==
    { [clientId |-> i] : i \in ids }
    \cup { [clientId |-> i, email |-> e] : i \in ids, e \in Emails }
    \cup { [clientId |-> i, email |-> e, agentId |-> 7] : i \in ids, e \in Emails }

----------------------------------------------------------------------------
(* Keyv store with per-key TTL *)

NoEntry == [absent |-> TRUE]
CodeKey(code) == <<"code", code>>
otpSentKey(clientId) == <<"otp_sent", clientId>>
DbKeys == {CodeKey(c) : c \in Codes} \cup {otpSentKey(s) : s \in Clients}

\* Keyv.set(key, value, ttl): the entry expires ttl after the write
KeyvSet(d, key, value, ttl, t) ==
    [d EXCEPT ![key] = [value |-> value, expires |-> t + ttl]]

\* Keyv.get(key): undefined when absent or when Date.now() > expires
KeyvGet(d, key, t) ==
    IF d[key] = NoEntry \/ t > d[key].expires THEN NoEntry ELSE d[key]

KeyvDelete(d, key) == [d EXCEPT ![key] = NoEntry]

----------------------------------------------------------------------------
(* TokenIssuer *)

NoToken == [none |-> TRUE]

\* token ids some party still knows: held by a caller, in a running request,
\* or in the blocklist
UsedJtis ==
    {t.jti : t \in held}
    \cup {j \in Jtis : blocklist[j] # 0 \/ revokedLog[j] # 0}
    \cup {j \in Jtis : \E p \in Procs :
            \/ "token" \in DOMAIN call[p] /\ call[p].token # NoToken /\ call[p].token.jti = j
            \/ "payload" \in DOMAIN call[p] /\ call[p].payload.jti = j}
FreeJtis == Jtis \ UsedJtis

\* crypto.randomUUID(): an id no party knows
randomUUID == CHOOSE j \in FreeJtis : \A k \in FreeJtis : j <= k

NoExpiresIn == Undefined
Seconds(n) == [seconds |-> n]

getRoleOverride(role) ==
    IF role \in DOMAIN config.roleOverrides THEN config.roleOverrides[role] ELSE 0

\* mutant: the token is signed without a token id (jwtid left out)
generateToken_withoutJwtid(payload, expiresIn, aclRole, jti, t) ==
    LET role ==
            IF aclRole # NoRole THEN aclRole
            ELSE IF payload.role # NoRole THEN payload.role
            ELSE RoleUser
        overrideExpire == getRoleOverride(role)
        defaultExpire ==
            IF ~config.disable_persistence /\ overrideExpire # 0
            THEN overrideExpire
            ELSE config.jwt_expire
        span == IF expiresIn # NoExpiresIn THEN expiresIn.seconds ELSE defaultExpire
    IN  [sub |-> payload.sub,
         email |-> payload.email,
         role |-> IF config.disable_persistence THEN payload.role ELSE role,
         iss |-> "issuer",
         jti |-> 0,
         iat |-> t,
         exp |-> t + span]

\* payload: [sub, email, role]; aclRole: the role of the ACL entry of
\* payload.email ("" when none); jti: the fresh token id; t: signing time
generateToken(payload, expiresIn, aclRole, jti, t) ==
    LET role ==
            IF aclRole # NoRole THEN aclRole
            ELSE IF payload.role # NoRole THEN payload.role
            ELSE RoleUser
        overrideExpire == getRoleOverride(role)
        defaultExpire ==
            IF ~config.disable_persistence /\ overrideExpire # 0
            THEN overrideExpire
            ELSE config.jwt_expire
        span == IF expiresIn # NoExpiresIn THEN expiresIn.seconds ELSE defaultExpire
    IN  [sub |-> payload.sub,
         email |-> payload.email,
         role |-> IF config.disable_persistence THEN payload.role ELSE role,
         iss |-> "issuer",
         jti |-> jti,
         iat |-> t,
         exp |-> t + span]

\* the ACL lookup of generateToken, skipped when persistence is disabled
AclRoleOf(email) ==
    IF config.disable_persistence \/ email \notin DOMAIN acl THEN NoRole ELSE acl[email]

----------------------------------------------------------------------------
(* OTP send: AuthService.sendOtp *)

\* mutant: the cooldown mark is read but never blocks the send
otpSendRateOpened_neverBlocks(lastSent) == TRUE

\* otpSendRateOpened: TRUE when the send may proceed (no truthy cooldown mark)
otpSendRateOpened(lastSent) == lastSent = NoEntry \/ lastSent.value = 0

\* await otpSendRateOpened(clientId): 403 when the cooldown mark is live
SendOtpRate(p, s) ==
    /\ call[p] = Idle
    /\ LET lastSent == KeyvGet(db, otpSentKey(s), now) IN
        call' = [call EXCEPT ![p] =
            IF otpSendRateOpened(lastSent)
            THEN [op |-> "sendOtp", pc |-> "setCode", clientId |-> s, code |-> 0,
                  stored |-> FALSE, marked |-> FALSE, sent |-> FALSE, status |-> 0]
            ELSE [op |-> "sendOtp", pc |-> "done", clientId |-> s, code |-> 0,
                  stored |-> FALSE, marked |-> FALSE, sent |-> FALSE, status |-> 403]]
    /\ UNCHANGED <<now, envVars, otpVars, tokenVars>>

\* the handlers that run sendOtp: the OTP request itself and the magic-link
\* consume of an expired message (auto-resend)
SendOtpCallers == {"sendOtp", "useRepliersToken"}

\* mutant: an expired magic link is always reported as plain expiry
expiredStatus_plain(auto_otp) == 403

\* useRepliersToken: statusCode = 403; if (auto_otp) { await sendOtp(..); statusCode = 412 }
expiredStatus(auto_otp) == IF auto_otp THEN 412 ELSE 403

\* code = codegen.generate(); await db.set(code, {clientId}, ttl_ms)
SendOtpSetCode(p) ==
    /\ call[p].op \in SendOtpCallers /\ call[p].pc = "setCode"
    /\ \E code \in Codes :
        /\ db' = KeyvSet(db, CodeKey(code), call[p].clientId, config.otp_ttl_ms, now)
        /\ consumed' = [consumed EXCEPT ![code] = FALSE]
        /\ uses' = [uses EXCEPT ![code] = 0]
        /\ call' = [q \in Procs |->
                     IF q = p
                     THEN [call[p] EXCEPT !.pc = "setMark", !.code = code, !.stored = TRUE]
                     ELSE IF call[q].op = "useOtp" /\ call[q].pc # "done"
                             /\ call[q].code = code
                     THEN [call[q] EXCEPT !.stale = TRUE]
                     ELSE call[q]]
    /\ UNCHANGED <<now, envVars, tokenVars>>

\* await db.set(otpSentKey(clientId), Date.now(), resend_ttl_ms)
SendOtpSetMark(p) ==
    /\ call[p].op \in SendOtpCallers /\ call[p].pc = "setMark"
    /\ db' = KeyvSet(db, otpSentKey(call[p].clientId), now, config.otp_resend_ttl_ms, now)
    /\ call' = [call EXCEPT ![p].pc = "send", ![p].marked = TRUE]
    /\ UNCHANGED <<now, envVars, tokenVars, consumed, uses>>

\* mutant: a failed delivery takes the code record and the cooldown mark back
SendOtpSend_rollsBack(p) ==
    /\ call[p].op \in SendOtpCallers /\ call[p].pc = "send"
    /\ \E delivered \in BOOLEAN :
        /\ call' = [call EXCEPT ![p].pc = "done", ![p].sent = delivered,
                                ![p].status =
                                   IF ~delivered THEN 503
                                   ELSE IF call[p].op = "useRepliersToken"
                                   THEN expiredStatus(config.emailtoken_auto_otp)
                                   ELSE 200]
        /\ db' = IF delivered THEN db
                 ELSE KeyvDelete(KeyvDelete(db, CodeKey(call[p].code)),
                                 otpSentKey(call[p].clientId))
    /\ UNCHANGED <<now, envVars, consumed, uses, tokenVars>>

\* await messages.send(...): delivered, or the messaging provider fails; a
\* useRepliersToken that ran the send then throws its retry condition
SendOtpSend(p) ==
    /\ call[p].op \in SendOtpCallers /\ call[p].pc = "send"
    /\ \E delivered \in BOOLEAN :
        call' = [call EXCEPT ![p].pc = "done", ![p].sent = delivered,
                             ![p].status =
                                IF ~delivered THEN 503
                                ELSE IF call[p].op = "useRepliersToken"
                                THEN expiredStatus(config.emailtoken_auto_otp)
                                ELSE 200]
    /\ UNCHANGED <<now, envVars, otpVars, tokenVars>>

----------------------------------------------------------------------------
(* OTP consume: AuthService.useOtp *)

\* mutant: the record is left in the store after a successful consume
UseOtpDelete_keepsRecord(d, code) == d

\* await db.delete(params.code)
UseOtpDelete(d, code) == KeyvDelete(d, CodeKey(code))

\* const code = await db.get(params.code); 403 when there is no live record
UseOtpGet(p, c) ==
    /\ call[p] = Idle
    /\ LET rec == KeyvGet(db, CodeKey(c), now) IN
        call' = [call EXCEPT ![p] =
            IF rec = NoEntry
            THEN [op |-> "useOtp", pc |-> "done", code |-> c, clientId |-> 0,
                  afterUse |-> consumed[c], stale |-> FALSE, user |-> Undefined,
                  token |-> NoToken, profile |-> Undefined, status |-> 403]
            ELSE [op |-> "useOtp", pc |-> "clientsGet", code |-> c,
                  clientId |-> rec.value, afterUse |-> consumed[c], stale |-> FALSE,
                  user |-> Undefined, token |-> NoToken, profile |-> Undefined,
                  status |-> 0]]
    /\ UNCHANGED <<now, envVars, otpVars, tokenVars>>

\* const user = await clients.get(code.clientId): the record, or the registry fails
UseOtpClientsGet(p) ==
    /\ call[p].op = "useOtp" /\ call[p].pc = "clientsGet"
    /\ \/ call' = [call EXCEPT ![p].pc = "generateToken",
                                ![p].user = clients[call[p].clientId]]
       \/ call' = [call EXCEPT ![p].pc = "done", ![p].status = 503]
    /\ UNCHANGED <<now, envVars, otpVars, tokenVars>>

\* mutant: the record is deleted before the token is issued
UseOtpGenerateToken_deletesFirst(p) ==
    /\ call[p].op = "useOtp" /\ call[p].pc = "generateToken"
    /\ FreeJtis # {}
    /\ db' = UseOtpDelete(db, call[p].code)
    /\ LET user == call[p].user
           payload == [sub |-> user.clientId, email |-> Email(user), role |-> NoRole]
           token == generateToken(payload, NoExpiresIn, AclRoleOf(Email(user)), randomUUID, now)
       IN  \/ call' = [call EXCEPT ![p].pc = "delete", ![p].token = token,
                                   ![p].profile = Pick(user, userProfilKeys)]
           \/ call' = [call EXCEPT ![p].pc = "done", ![p].status = 500]
    /\ UNCHANGED <<now, envVars, consumed, uses, tokenVars>>

\* const token = await generateToken({email, sub}); profile = _.pick(user, keys);
\* generateToken awaits the ACL lookup and signs: either may throw
UseOtpGenerateToken(p) ==
    /\ call[p].op = "useOtp" /\ call[p].pc = "generateToken"
    /\ FreeJtis # {}
    /\ LET user == call[p].user
           payload == [sub |-> user.clientId, email |-> Email(user), role |-> NoRole]
           token == generateToken(payload, NoExpiresIn, AclRoleOf(Email(user)), randomUUID, now)
       IN  \/ call' = [call EXCEPT ![p].pc = "delete", ![p].token = token,
                                   ![p].profile = Pick(user, userProfilKeys)]
           \/ call' = [call EXCEPT ![p].pc = "done", ![p].status = 500]
    /\ UNCHANGED <<now, envVars, otpVars, tokenVars>>

\* await db.delete(params.code); return {token, profile}
UseOtpReturn(p) ==
    /\ call[p].op = "useOtp" /\ call[p].pc = "delete"
    /\ db' = UseOtpDelete(db, call[p].code)
    /\ consumed' = [consumed EXCEPT ![call[p].code] = TRUE]
    /\ uses' = IF call[p].stale THEN uses
               ELSE [uses EXCEPT ![call[p].code] = @ + 1]
    /\ call' = [call EXCEPT ![p].pc = "done", ![p].status = 200]
    /\ UNCHANGED <<now, envVars, tokenVars>>

----------------------------------------------------------------------------
(* Magic-link consume: AuthService.useRepliersToken *)

\* messages the messaging provider can hold for a token at time t
Messages(t) ==
    {[clientId |-> s, agentId |-> 7, sentDateTime |-> sent] :
        s \in Clients, sent \in 0..t}

\* mutant: the endpoint counts as activated whatever the configuration says
useRepliersTokenActivated_always(enabled) == TRUE

\* if (!this.config.auth.emailtoken.enabled) throw new ApiError(.., 400)
useRepliersTokenActivated(enabled) == enabled

\* mutant: a message whose age equals the window counts as expired
messageExpired_atWindow(message, t) == t - message.sentDateTime >= config.emailtoken_expire

\* new Date().getTime() - new Date(sentDateTime).getTime() > ms(emailtoken.expire)
messageExpired(message, t) == t - message.sentDateTime > config.emailtoken_expire

UseRepliersTokenStart ==
    [op |-> "useRepliersToken", pc |-> "done", messagesCalls |-> 0,
     message |-> Undefined, expired |-> FALSE, clientId |-> 0, code |-> 0,
     stored |-> FALSE, marked |-> FALSE, sent |-> FALSE, user |-> Undefined,
     token |-> NoToken, profile |-> Undefined, status |-> 0]

\* the activation check, then messageRes = await messages.get({token}) and the
\* checks on its first message; the provider fails (no reply: Null), holds no
\* message for the token (Undefined) or returns one
UseRepliersTokenGet(p) ==
    /\ call[p] = Idle
    /\ LET c == UseRepliersTokenStart
           m == [c EXCEPT !.messagesCalls = 1] IN
        IF ~useRepliersTokenActivated(config.emailtoken_enabled)
        THEN call' = [call EXCEPT ![p] = [c EXCEPT !.status = 400]]
        ELSE \/ call' = [call EXCEPT ![p] = [m EXCEPT !.message = Null, !.status = 503]]
             \/ call' = [call EXCEPT ![p] = [m EXCEPT !.status = 403]]
             \/ \E message \in Messages(now) :
                    LET r == [m EXCEPT !.message = message,
                                       !.clientId = message.clientId,
                                       !.expired = messageExpired(message, now)]
                    IN  call' = [call EXCEPT ![p] =
                            IF ~r.expired THEN [r EXCEPT !.pc = "clientsGet"]
                            ELSE IF config.emailtoken_auto_otp
                            THEN [r EXCEPT !.pc = "rate"]
                            ELSE [r EXCEPT !.status =
                                    expiredStatus(config.emailtoken_auto_otp)]]
    /\ UNCHANGED <<now, envVars, otpVars, tokenVars>>

\* await this.sendOtp(message.clientId, ..): its cooldown check comes first
UseRepliersTokenRate(p) ==
    /\ call[p].op = "useRepliersToken" /\ call[p].pc = "rate"
    /\ LET lastSent == KeyvGet(db, otpSentKey(call[p].clientId), now) IN
        call' = [call EXCEPT ![p] =
            IF otpSendRateOpened(lastSent)
            THEN [@ EXCEPT !.pc = "setCode"]
            ELSE [@ EXCEPT !.pc = "done", !.status = 403]]
    /\ UNCHANGED <<now, envVars, otpVars, tokenVars>>

\* const userInfo = await clients.get(clientId): the record, or the registry fails
UseRepliersTokenClientsGet(p) ==
    /\ call[p].op = "useRepliersToken" /\ call[p].pc = "clientsGet"
    /\ \/ call' = [call EXCEPT ![p].pc = "generateToken",
                                ![p].user = clients[call[p].clientId]]
       \/ call' = [call EXCEPT ![p].pc = "done", ![p].status = 503]
    /\ UNCHANGED <<now, envVars, otpVars, tokenVars>>

\* const token = await generateToken({email, sub}); return {token, profile}
UseRepliersTokenGenerateToken(p) ==
    /\ call[p].op = "useRepliersToken" /\ call[p].pc = "generateToken"
    /\ FreeJtis # {}
    /\ LET user == call[p].user
           payload == [sub |-> user.clientId, email |-> Email(user), role |-> NoRole]
           token == generateToken(payload, NoExpiresIn, AclRoleOf(Email(user)), randomUUID, now)
       IN  call' = [call EXCEPT ![p].pc = "done", ![p].token = token,
                                ![p].profile = Pick(user, userProfilKeys),
                                ![p].status = 200]
    /\ UNCHANGED <<now, envVars, otpVars, tokenVars>>

----------------------------------------------------------------------------
(* RevocationStore: BlocklistRepository, an entry per revoked jti that lives *)
(* until the revoked token's expires-at                                      *)

\* create(jti, exp): idempotent insert; TTL = exp - now clamped to zero, so the
\* entry is live while now < exp
BlocklistCreate(b, jti, exp, t) == IF b[jti] # 0 THEN b ELSE [b EXCEPT ![jti] = exp]

BlocklistIsRevoked(b, jti, t) == b[jti] # 0 /\ t < b[jti]

BlocklistCleanupExpired(b, t) ==
    [j \in Jtis |-> IF b[j] # 0 /\ t >= b[j] THEN 0 ELSE b[j]]

\* history of revocations: the expires-at a jti was first revoked with
LogRevocation(log, jti, exp) == IF log[jti] # 0 THEN log ELSE [log EXCEPT ![jti] = exp]

----------------------------------------------------------------------------
(* Token issuance as the login strategies use it: generateToken(payload) *)

\* payloads of the strategies: {email, sub} (OTP, magic link) and
\* {email, role: Agent} (embed login, no sub)
IssuePayloads ==
    {[sub |-> s, email |-> "a@x.com", role |-> NoRole] : s \in Clients}
    \cup {[sub |-> 0, email |-> "b@x.com", role |-> RoleAgent]}

GenerateTokenCall(p) ==
    /\ call[p] = Idle
    /\ FreeJtis # {}
    /\ \E payload \in IssuePayloads :
        call' = [call EXCEPT ![p] =
            [op |-> "generateToken", pc |-> "done", status |-> 200,
             token |-> generateToken(payload, NoExpiresIn, AclRoleOf(payload.email),
                                     randomUUID, now)]]
    /\ UNCHANGED <<now, envVars, otpVars, tokenVars>>

\* generateToken(payload, expiresIn?) as any caller may use it: every claims
\* payload, with or without a role, with or without an explicit expiry
IssueInputs ==
    {[sub |-> s, email |-> e, role |-> r] :
        s \in Clients, e \in Emails, r \in Roles \cup {NoRole}}

IssueExpiries == {NoExpiresIn, Seconds(3)}

\* the awaited aclRepo.getUserAcl(email), made unless persistence is disabled
aclLookups == IF config.disable_persistence THEN 0 ELSE 1

IssueCall(p) ==
    /\ call[p] = Idle
    /\ FreeJtis # {}
    /\ \E payload \in IssueInputs, expiresIn \in IssueExpiries :
        call' = [call EXCEPT ![p] =
            [op |-> "generateToken", pc |-> "done", status |-> 200,
             input |-> payload, expiresIn |-> expiresIn, lookups |-> aclLookups,
             token |-> generateToken(payload, expiresIn, AclRoleOf(payload.email),
                                     randomUUID, now)]]
    /\ UNCHANGED <<now, envVars, otpVars, tokenVars>>

----------------------------------------------------------------------------
(* AuthService.refresh *)

\* claims a caller can present: those of a token it holds, possibly stripped
\* of iat, exp or jti
PresentedClaims ==
    held \cup {[t EXCEPT !.iat = 0] : t \in held}
         \cup {[t EXCEPT !.exp = 0] : t \in held}
         \cup {[t EXCEPT !.jti = 0] : t \in held}

\* mutant: only the expires-at is required
refreshHasExpirationInfo_expOnly(payload) == payload.exp # 0

\* mutant: claims whose jti is in the blocklist are turned away as well
refreshHasExpirationInfo_andNotRevoked(payload) ==
    /\ payload.iat # 0 /\ payload.exp # 0
    /\ (payload.jti = 0 \/ blocklist[payload.jti] = 0)

\* the negation of (!payload.iat || !payload.exp)
refreshHasExpirationInfo(payload) == payload.iat # 0 /\ payload.exp # 0

\* mutant: the new token lives for what is left of the old one
refreshExpiresIn_remaining(payload, t) == Seconds(payload.exp - t)

\* const diff = exp - iat; const expiresIn = `${diff}s`
refreshExpiresIn(payload, t) == Seconds(payload.exp - payload.iat)

\* mutant: the old token id is never revoked
refreshRevoke_skipped(b, jti, exp, t) == b

\* if (jti) await blocklistRepository.create(jti, exp)
refreshRevoke(b, jti, exp, t) == IF jti # 0 THEN BlocklistCreate(b, jti, exp, t) ELSE b

\* if (!payload.iat || !payload.exp) throw new ApiError(...)
RefreshCheck(p) ==
    /\ call[p] = Idle
    /\ \E payload \in PresentedClaims :
        call' = [call EXCEPT ![p] =
            [op |-> "refresh",
             pc |-> IF refreshHasExpirationInfo(payload) THEN "generateToken" ELSE "done",
             payload |-> payload, token |-> NoToken,
             status |-> IF refreshHasExpirationInfo(payload) THEN 0 ELSE 500]]
    /\ UNCHANGED <<now, envVars, otpVars, tokenVars>>

\* const token = await generateToken(newPayload, expiresIn); without a jti
\* the handler returns without a further await
RefreshGenerateToken(p) ==
    /\ call[p].op = "refresh" /\ call[p].pc = "generateToken"
    /\ FreeJtis # {}
    /\ LET payload == call[p].payload
           newPayload == [sub |-> payload.sub, email |-> payload.email,
                          role |-> payload.role]
           token == generateToken(newPayload, refreshExpiresIn(payload, now),
                                  AclRoleOf(payload.email), randomUUID, now)
       IN  call' = [call EXCEPT ![p] =
            IF payload.jti # 0
            THEN [@ EXCEPT !.pc = "revoke", !.token = token]
            ELSE [@ EXCEPT !.pc = "done", !.token = token, !.status = 200]]
    /\ UNCHANGED <<now, envVars, otpVars, tokenVars>>

\* await blocklistRepository.create(jti, exp); return {token}
RefreshRevoke(p) ==
    /\ call[p].op = "refresh" /\ call[p].pc = "revoke"
    /\ LET jti == call[p].payload.jti
           exp == call[p].payload.exp
           b == refreshRevoke(blocklist, jti, exp, now)
       IN  /\ blocklist' = b
           /\ revokedLog' = LogRevocation(revokedLog, jti, exp)
           /\ call' = [call EXCEPT ![p].pc = "done", ![p].status = 200]
    /\ UNCHANGED <<now, envVars, otpVars, held>>

----------------------------------------------------------------------------
(* AuthService.logout, isRevoked, cleanupExpired *)

\* mutant: the entry is written with the current time as its expires-at
logout_untilNow(b, jti, exp, t) == BlocklistCreate(b, jti, t, t)

\* return blocklistRepository.create(jti, exp)
logout(b, jti, exp, t) == BlocklistCreate(b, jti, exp, t)

\* return !!revoke
isRevoked(revoke) == revoke = TRUE

Logout(p) ==
    /\ call[p] = Idle
    /\ \E t \in held :
        /\ blocklist' = logout(blocklist, t.jti, t.exp, now)
        /\ revokedLog' = LogRevocation(revokedLog, t.jti, t.exp)
        /\ call' = [call EXCEPT ![p] =
                [op |-> "logout", pc |-> "done", jti |-> t.jti,
                 again |-> revokedLog[t.jti] # 0, status |-> 200]]
    /\ UNCHANGED <<now, envVars, otpVars, held>>

IsRevokedCall(p) ==
    /\ call[p] = Idle
    /\ \E t \in held :
        call' = [call EXCEPT ![p] =
            [op |-> "isRevoked", pc |-> "done", jti |-> t.jti,
             result |-> isRevoked(BlocklistIsRevoked(blocklist, t.jti, now)),
             status |-> 200]]
    /\ UNCHANGED <<now, envVars, otpVars, tokenVars>>

CleanupExpired ==
    /\ blocklist' = BlocklistCleanupExpired(blocklist, now)
    /\ blocklist' # blocklist
    /\ UNCHANGED <<now, envVars, otpVars, held, revokedLog, call>>

\* the response leaves the process and the caller keeps the token it carries
RespondHold(p) ==
    /\ call[p].pc = "done" /\ call[p].status = 200
    /\ call[p].op \in {"generateToken", "refresh"}
    /\ held' = held \cup {call[p].token}
    /\ call' = [call EXCEPT ![p] = Idle]
    /\ UNCHANGED <<now, envVars, otpVars, blocklist, revokedLog>>

----------------------------------------------------------------------------
(* Identity provider: StrapiService.register and StrapiService.login *)

\* the token Strapi returns in its auth response (not signed by generateToken)
StrapiJwt == [iss |-> "strapi", jti |-> 0]

\* user records of the provider's auth response
StrapiUsers ==
    {[id |-> 41, email |-> e, provider |-> "local"] : e \in Emails}
    \cup {[id |-> 41, email |-> e, provider |-> "local", clientId |-> c] :
            e \in Emails, c \in 1..2}

\* what a failed HTTP call to the provider looks like: error.response.status,
\* 0 when there is no response (timeout, connection failure)
ProviderFailures == {0, 400, 401, 500}

\* mutant: the provider's 401 is passed on as it is
StrapiRegisterError_keepsStatus(status) == IF status \in {400, 401} THEN status ELSE 503

\* register: 400 -> ApiError(.., 400), anything else -> ApiError(.., 503)
StrapiRegisterError(status) == IF status = 400 THEN 400 ELSE 503

\* mutant: every failed login is reported as the service being unavailable
StrapiLoginError_unavailable(status) == 503

\* login: 400 -> ApiError("Invalid credentials", 401), anything else -> 503
StrapiLoginError(status) == IF status = 400 THEN 401 ELSE 503

\* the provider's answer to a wrong identifier or password, the case
\* StrapiService.login names "Invalid credentials"
InvalidCredentials == 400

\* the provider answered the request
ProviderOk == 200

----------------------------------------------------------------------------
(* Client registry replies, as signup and password login see them.  The     *)
(* registry is an external service: any record or error may come back.      *)

RegistryErrors == {[status |-> 503, statusCode |-> 0]}
ConflictErrors == {[status |-> 409, statusCode |-> 0], [status |-> 0, statusCode |-> 409]}
ErrStatus(error) == IF error.status # 0 THEN error.status ELSE error.statusCode
NoObject == <<>>

\* mutant: the conflict is not recognised and the error is rethrown
isConflict_never(error) == FALSE

\* error.status === 409 || error.statusCode === 409
isConflict(error) == error.status = 409 \/ error.statusCode = 409

\* mutant: the registry record overrides the provider's fields
mergeProfile_registryWins(userInfo, strapiUser) ==
    Pick(Spread(strapiUser, userInfo), userProfilKeys)

\* _.pick({ ...userInfo, ...strapiAuth.user }, userProfilKeys)
mergeProfile(userInfo, strapiUser) ==
    Pick(Spread(userInfo, strapiUser), userProfilKeys)

----------------------------------------------------------------------------
(* AuthService.signup *)

SignupFail(c, status) == [c EXCEPT !.pc = "done", !.status = status]

\* mutant: the provider's error is replaced by an Internal error
signupRethrow_asInternal(error) == 500

\* try { strapiAuth = await strapiService.register(..) } catch (error) { throw error }
signupRethrow(error) == error

SignupOk(c, userInfo) ==
    IF userInfo = Null
    THEN SignupFail(c, 500)
    ELSE [c EXCEPT !.pc = "done", !.status = 200, !.userInfo = userInfo,
                   !.token = StrapiJwt,
                   !.profile = mergeProfile(userInfo, c.strapiUser)]

\* 1. strapiAuth = await strapiService.register(...); its error is rethrown
SignupRegister(p) ==
    /\ call[p] = Idle
    /\ LET c == [op |-> "signup", pc |-> "create", strapiCalls |-> 1,
                 provider |-> ProviderOk, strapiUser |-> Undefined,
                 userInfo |-> Undefined, existingUser |-> Undefined,
                 conflict |-> FALSE, ops |-> <<>>, token |-> NoToken,
                 profile |-> Undefined, status |-> 0]
       IN  \/ \E u \in StrapiUsers :
                call' = [call EXCEPT ![p] = [c EXCEPT !.strapiUser = u]]
           \/ \E f \in ProviderFailures :
                call' = [call EXCEPT ![p] =
                    SignupFail([c EXCEPT !.provider = f],
                               signupRethrow(StrapiRegisterError(f)))]
    /\ UNCHANGED <<now, envVars, otpVars, tokenVars>>

\* 2. userInfo = await clients.create(...); a 409 falls back to the update path
SignupCreate(p) ==
    /\ call[p].op = "signup" /\ call[p].pc = "create"
    /\ LET c == [call[p] EXCEPT !.ops = Append(@, "create")] IN
        \/ \E userInfo \in RegistryClients(1..2) \cup {Null} :
                call' = [call EXCEPT ![p] = SignupOk(c, userInfo)]
        \/ \E error \in RegistryErrors \cup ConflictErrors :
                call' = [call EXCEPT ![p] =
                    IF isConflict(error)
                    THEN [c EXCEPT !.pc = "filter", !.conflict = TRUE]
                    ELSE SignupFail([c EXCEPT !.conflict = error \in ConflictErrors],
                                    ErrStatus(error))]
    /\ UNCHANGED <<now, envVars, otpVars, tokenVars>>

\* existingUsers = await clients.filter({email}); 500 when none is found
SignupFilter(p) ==
    /\ call[p].op = "signup" /\ call[p].pc = "filter"
    /\ LET c == [call[p] EXCEPT !.ops = Append(@, "filter")] IN
        \/ \E existingUser \in RegistryClients(1..2) :
                call' = [call EXCEPT ![p] =
                    [c EXCEPT !.pc = "update", !.existingUser = existingUser]]
        \/ call' = [call EXCEPT ![p] = SignupFail(c, 500)]
        \/ \E error \in RegistryErrors :
                call' = [call EXCEPT ![p] =
                    SignupFail([c EXCEPT !.existingUser = Null], ErrStatus(error))]
    /\ UNCHANGED <<now, envVars, otpVars, tokenVars>>

\* await clients.update({clientId: existingUser.clientId, ...})
SignupUpdate(p) ==
    /\ call[p].op = "signup" /\ call[p].pc = "update"
    /\ LET c == [call[p] EXCEPT !.ops = Append(@, "update")] IN
        \/ call' = [call EXCEPT ![p] = [c EXCEPT !.pc = "get"]]
        \/ \E error \in RegistryErrors :
                call' = [call EXCEPT ![p] = SignupFail(c, ErrStatus(error))]
    /\ UNCHANGED <<now, envVars, otpVars, tokenVars>>

\* userInfo = await clients.get(existingUser.clientId); merge and return
SignupGet(p) ==
    /\ call[p].op = "signup" /\ call[p].pc = "get"
    /\ LET c == [call[p] EXCEPT !.ops = Append(@, "get")] IN
        \/ \E userInfo \in RegistryClients({c.existingUser.clientId}) \cup {Null} :
                call' = [call EXCEPT ![p] = SignupOk(c, userInfo)]
        \/ \E error \in RegistryErrors :
                call' = [call EXCEPT ![p] = SignupFail(c, ErrStatus(error))]
    /\ UNCHANGED <<now, envVars, otpVars, tokenVars>>

----------------------------------------------------------------------------
(* AuthService.login and loginWithStrapi *)

\* try { .. await strapiService.login(..) .. } catch (error) { throw error }
loginRethrow(error) == error

\* login without a password: {token: undefined, user: null}
LoginNoPassword(p) ==
    /\ call[p] = Idle
    /\ call' = [call EXCEPT ![p] =
            [op |-> "login", pc |-> "done", password |-> FALSE, strapiCalls |-> 0,
             provider |-> ProviderOk, strapiUser |-> Undefined, userInfo |-> Undefined, ops |-> <<>>,
             token |-> NoToken, profile |-> Null, status |-> 200]]
    /\ UNCHANGED <<now, envVars, otpVars, tokenVars>>

\* strapiAuth = await strapiService.login({identifier, password})
LoginStrapi(p) ==
    /\ call[p] = Idle
    /\ LET c == [op |-> "login", pc |-> "filter", password |-> TRUE,
                 strapiCalls |-> 1, provider |-> ProviderOk, strapiUser |-> Undefined, userInfo |-> Undefined, ops |-> <<>>,
                 token |-> NoToken, profile |-> Undefined, status |-> 0]
       IN  \/ \E u \in StrapiUsers :
                call' = [call EXCEPT ![p] = [c EXCEPT !.strapiUser = u]]
           \/ \E f \in ProviderFailures :
                call' = [call EXCEPT ![p] =
                    [c EXCEPT !.pc = "done", !.provider = f,
                              !.status = loginRethrow(StrapiLoginError(f))]]
    /\ UNCHANGED <<now, envVars, otpVars, tokenVars>>

\* result = await clients.filter({externalId}); merge result.clients[0]
LoginFilter(p) ==
    /\ call[p].op = "login" /\ call[p].pc = "filter"
    /\ LET c == [call[p] EXCEPT !.ops = Append(@, "filter")] IN
        \/ \E userInfo \in RegistryClients(1..2) \cup {NoObject} :
                call' = [call EXCEPT ![p] =
                    [c EXCEPT !.pc = "done", !.status = 200, !.userInfo = userInfo,
                              !.token = StrapiJwt,
                              !.profile = mergeProfile(userInfo, c.strapiUser)]]
        \/ \E error \in RegistryErrors :
                call' = [call EXCEPT ![p] =
                    [c EXCEPT !.pc = "done", !.status = ErrStatus(error)]]
    /\ UNCHANGED <<now, envVars, otpVars, tokenVars>>

----------------------------------------------------------------------------
(* Embed login: AuthService.embedLogin, with the SignatureVerifier *)

\* contexts the embed partner sends: {user: {email}, person: {id}}
EmbedContexts == {[user |-> [email |-> e], person |-> [id |-> 5]] : e \in Emails}

\* the context blob: base64 of the JSON text, and its decoding
ContextBlob(decoded) == [base64 |-> decoded]
DecodeContext(context) == context.base64
ContextBlobs == {ContextBlob(d) : d \in EmbedContexts}

\* config.boss.system_key, the key shared with the embed partner
SystemKey == "system_key"

\* keyed signature of a blob; only the holder of the key can compute it
Hmac(context, key) == [hmac |-> context, key |-> key]

\* signatures a caller can present: the partner's over any blob, and those
\* computed with a key that is not the system key
PresentedSignatures ==
    {Hmac(b, k) : b \in ContextBlobs, k \in {SystemKey, "other_key"}}

\* verify(contextBlob, signature, sharedKey): recompute and compare
isFromFollowUpBoss(context, signature, key) == signature = Hmac(context, key)

\* derive(identifier, salt): one-way derivation of the partner-facing signature
calcSignature(id, salt) == [derived |-> id, salt |-> salt]

\* mutant: the result of the verification is ignored
embedLoginAccepts_any(isValid) == TRUE

\* if (!isValid) throw new ApiError("Invalid signature", 401)
embedLoginAccepts(isValid) == isValid

\* mutant: the payload is built without the elevated role
embedLoginPayload_withoutRole(decodedContext) ==
    [sub |-> 0, email |-> decodedContext.user.email, role |-> NoRole]

\* { email: decodedContext.user.email, role: UserRole.Agent } (no sub)
embedLoginPayload(decodedContext) ==
    [sub |-> 0, email |-> decodedContext.user.email, role |-> RoleAgent]

\* isValid = isFromFollowUpBoss(context, signature, system_key); 401 when not
\* valid, else decodedContext = JSON.parse(Buffer.from(context, "base64"))
EmbedLoginVerify(p) ==
    /\ call[p] = Idle
    /\ \E context \in ContextBlobs, signature \in PresentedSignatures :
        LET isValid == isFromFollowUpBoss(context, signature, config.boss_system_key)
            c == [op |-> "embedLogin", pc |-> "done", context |-> context,
                  signature |-> signature, decodedContext |-> Undefined,
                  token |-> NoToken, clientSignature |-> Undefined, status |-> 401]
        IN  call' = [call EXCEPT ![p] =
                IF ~embedLoginAccepts(isValid) THEN c
                ELSE [c EXCEPT !.pc = "generateToken", !.status = 0,
                               !.decodedContext = DecodeContext(context)]]
    /\ UNCHANGED <<now, envVars, otpVars, tokenVars>>

\* jwt = await generateToken({email, role: Agent}); clientSignature =
\* calcSignature(person.id, agents_signature_salt); return {jwt, clientSignature}
EmbedLoginGenerateToken(p) ==
    /\ call[p].op = "embedLogin" /\ call[p].pc = "generateToken"
    /\ FreeJtis # {}
    /\ LET decodedContext == call[p].decodedContext
           payload == embedLoginPayload(decodedContext)
           jwt == generateToken(payload, NoExpiresIn, AclRoleOf(payload.email),
                                randomUUID, now)
       IN  call' = [call EXCEPT ![p].pc = "done", ![p].status = 200,
                                ![p].token = jwt,
                                ![p].clientSignature =
                                    calcSignature(decodedContext.person.id,
                                                  config.agents_signature_salt)]
    /\ UNCHANGED <<now, envVars, otpVars, tokenVars>>

----------------------------------------------------------------------------
(* JWT middleware (middleware.jwt): bearer tokens are validated against the *)
(* identity provider's /api/users/me                                        *)

\* a JavaScript string value, told apart from objects, null and undefined
String(v) == [string |-> v]

\* the text of a header, character by character
Text(chars) == [chars |-> chars]

BearerPrefix == <<"B", "e", "a", "r", "e", "r", " ">>

\* String.prototype.startsWith
startsWith(chars, prefix) ==
    Len(chars) >= Len(prefix) /\ SubSeq(chars, 1, Len(prefix)) = prefix

\* String.prototype.substring(start), start counted from 0
substring(chars, start) == SubSeq(chars, start + 1, Len(chars))

\* ctx.headers.authorization: missing, empty, another scheme, the scheme in
\* lower case or without its space, a bearer token, the bare prefix
AuthorizationHeaders ==
    {Undefined, Text(<<>>),
     Text(<<"B", "a", "s", "i", "c", " ", "t">>),
     Text(<<"b", "e", "a", "r", "e", "r", " ", "t">>),
     Text(<<"B", "e", "a", "r", "e", "r", "t">>),
     Text(BearerPrefix \o <<"t">>),
     Text(BearerPrefix)}

\* the negation of (!authHeader || !authHeader.startsWith("Bearer "))
hasBearerToken(authHeader) ==
    /\ authHeader # Undefined
    /\ authHeader.chars # <<>>
    /\ startsWith(authHeader.chars, BearerPrefix)

ApiError(message, statusCode) == [message |-> message, statusCode |-> statusCode]

\* role of a provider user record: not populated, null, or a role object
\* with or without a type
ProviderRoles ==
    {Null, [id |-> 1, name |-> "Admin"], [id |-> 1, type |-> "admin"],
     [id |-> 2, type |-> "authenticated"]}

\* response.data of GET /api/users/me
ProviderUsers ==
    {[id |-> 41, email |-> e, username |-> "ann"] : e \in Emails}
    \cup {[id |-> 41, email |-> e, username |-> "ann", role |-> r] :
            e \in Emails, r \in ProviderRoles}

\* what axios.get throws: an error without response (timeout, connection
\* failure) or with the provider's status
AxiosErrors ==
    {[response |-> Undefined]}
    \cup {[response |-> [status |-> st]] : st \in {401, 403, 500}}

\* the catch block around the provider call: error.response?.status === 401
strapiAuthError(error) ==
    IF /\ "response" \in DOMAIN error
       /\ error.response # Undefined
       /\ error.response.status = 401
    THEN ApiError("Invalid or expired token", 401)
    ELSE ApiError("Authentication service unavailable", 503)

\* userData.role?.type || "authenticated"
roleType(userData) ==
    IF /\ "role" \in DOMAIN userData
       /\ userData.role # Null
       /\ "type" \in DOMAIN userData.role
       /\ userData.role.type # ""
    THEN String(userData.role.type)
    ELSE String("authenticated")

\* ctx.state.user = { sub: userData.id.toString(), email, username,
\*                    role: userData.role?.type || "authenticated", ...userData }
stateUser(userData) ==
    Spread([sub |-> String(ToString(userData.id)),
            email |-> userData.email,
            username |-> userData.username,
            role |-> roleType(userData)],
           userData)

\* what the downstream handler does: it returns, or throws an ApiError or an
\* error of an HTTP call of its own
DownstreamErrors ==
    {ApiError("Forbidden", 403), ApiError("Unauthorized", 401)} \cup AxiosErrors

\* mutant: next() runs inside the try block, its errors reach the catch
downstreamError_caught(error) == strapiAuthError(error)

\* await next() outside of try-catch: the error leaves the middleware as thrown
downstreamError(error) == error

\* status of the response to a thrown error: that of an ApiError, else 500
thrownStatus(error) ==
    IF "statusCode" \in DOMAIN error THEN error.statusCode ELSE 500

\* the header check, then response = await axios.get(/api/users/me) and
\* ctx.state.user; the provider validates the token or the call fails
JwtAuthenticate(p) ==
    /\ call[p] = Idle
    /\ \E authHeader \in AuthorizationHeaders :
        LET c == [op |-> "jwt", pc |-> "done", authHeader |-> authHeader,
                  bearer |-> <<>>, providerCalls |-> 0, reply |-> Undefined,
                  user |-> Undefined, nextCalls |-> 0, raised |-> Undefined,
                  thrown |-> Undefined, status |-> 0]
        IN  IF ~hasBearerToken(authHeader)
            THEN call' = [call EXCEPT ![p] =
                    [c EXCEPT !.thrown = ApiError("No authorization token provided", 401),
                              !.status = 401]]
            ELSE LET m == [c EXCEPT !.bearer = substring(authHeader.chars, 7),
                                    !.providerCalls = 1]
                 IN  \/ \E userData \in ProviderUsers :
                            call' = [call EXCEPT ![p] =
                                [m EXCEPT !.pc = "next", !.reply = [data |-> userData],
                                          !.user = stateUser(userData)]]
                     \/ \E error \in AxiosErrors :
                            call' = [call EXCEPT ![p] =
                                [m EXCEPT !.reply = error,
                                          !.thrown = strapiAuthError(error),
                                          !.status = strapiAuthError(error).statusCode]]
    /\ UNCHANGED <<now, envVars, otpVars, tokenVars>>

\* await next(): the downstream handler returns or throws
JwtNext(p) ==
    /\ call[p].op = "jwt" /\ call[p].pc = "next"
    /\ \/ \E status \in {200, 404} :
            call' = [call EXCEPT ![p].pc = "done", ![p].nextCalls = @ + 1,
                                 ![p].status = status]
       \/ \E error \in DownstreamErrors :
            call' = [call EXCEPT ![p].pc = "done", ![p].nextCalls = @ + 1,
                                 ![p].raised = error,
                                 ![p].thrown = downstreamError(error),
                                 ![p].status = thrownStatus(downstreamError(error))]
    /\ UNCHANGED <<now, envVars, otpVars, tokenVars>>

----------------------------------------------------------------------------
(* Environment: the response leaves the process; time passes *)

Respond(p) ==
    /\ call[p].pc = "done"
    /\ ~(call[p].status = 200 /\ call[p].op \in {"generateToken", "refresh"})
    /\ call' = [call EXCEPT ![p] = Idle]
    /\ UNCHANGED <<now, envVars, otpVars, tokenVars>>

Tick ==
    /\ now < MaxTime
    /\ now' = now + 1
    /\ UNCHANGED <<envVars, otpVars, tokenVars, call>>

----------------------------------------------------------------------------
(* Configurations *)

BaseConfig ==
    [otp_ttl_ms |-> 1, otp_resend_ttl_ms |-> 1, disable_persistence |-> FALSE,
     jwt_expire |-> 1, roleOverrides |-> [r \in {} |-> 0],
     emailtoken_enabled |-> TRUE, emailtoken_expire |-> 1,
     emailtoken_auto_otp |-> TRUE,
     boss_system_key |-> SystemKey, agents_signature_salt |-> "salt"]

InitCommon ==
    /\ now = 1
    /\ db = [k \in DbKeys |-> NoEntry]
    /\ blocklist = [j \in Jtis |-> 0]
    /\ held = {}
    /\ revokedLog = [j \in Jtis |-> 0]
    /\ consumed = [c \in Codes |-> FALSE]
    /\ uses = [c \in Codes |-> 0]
    /\ call = [p \in Procs |-> Idle]

----------------------------------------------------------------------------
(* Specification of the OTP flow *)

InitOtp ==
    /\ InitCommon
    /\ \E ttl \in 1..MaxTtl, resend \in 1..MaxTtl :
        config = [BaseConfig EXCEPT !.otp_ttl_ms = ttl, !.otp_resend_ttl_ms = resend]
    /\ acl = [e \in {} |-> NoRole]
    /\ clients = [s \in Clients |-> [clientId |-> s, email |-> "a@x.com", agentId |-> 7]]

NextOtp ==
    \/ \E p \in Procs, s \in Clients : SendOtpRate(p, s)
    \/ \E p \in Procs : SendOtpSetCode(p)
    \/ \E p \in Procs : SendOtpSetMark(p)
    \/ \E p \in Procs : SendOtpSend(p)
    \/ \E p \in Procs, c \in Codes : UseOtpGet(p, c)
    \/ \E p \in Procs : UseOtpClientsGet(p)
    \/ \E p \in Procs : UseOtpGenerateToken(p)
    \/ \E p \in Procs : UseOtpReturn(p)
    \/ \E p \in Procs : Respond(p)
    \/ Tick

SpecOtp == InitOtp /\ [][NextOtp]_vars

----------------------------------------------------------------------------
(* Specification of the magic-link flow, next to plain OTP requests *)

InitMagic ==
    /\ InitCommon
    /\ \E enabled \in BOOLEAN, auto \in BOOLEAN, resend \in 1..MaxTtl :
        config = [BaseConfig EXCEPT !.otp_resend_ttl_ms = resend,
                                    !.emailtoken_enabled = enabled,
                                    !.emailtoken_auto_otp = auto]
    /\ acl = [e \in {} |-> NoRole]
    /\ clients = [s \in Clients |-> [clientId |-> s, email |-> "a@x.com", agentId |-> 7]]

NextMagic ==
    \/ \E p \in Procs : UseRepliersTokenGet(p)
    \/ \E p \in Procs : UseRepliersTokenRate(p)
    \/ \E p \in Procs : UseRepliersTokenClientsGet(p)
    \/ \E p \in Procs : UseRepliersTokenGenerateToken(p)
    \/ \E p \in Procs, s \in Clients : SendOtpRate(p, s)
    \/ \E p \in Procs : SendOtpSetCode(p)
    \/ \E p \in Procs : SendOtpSetMark(p)
    \/ \E p \in Procs : SendOtpSend(p)
    \/ \E p \in Procs : Respond(p)
    \/ Tick

SpecMagic == InitMagic /\ [][NextMagic]_vars

----------------------------------------------------------------------------
(* Specification of the embed login *)

InitEmbed ==
    /\ InitCommon
    /\ \E off \in BOOLEAN : config = [BaseConfig EXCEPT !.disable_persistence = off]
    /\ \E listed \in SUBSET {"a@x.com"}, role \in Roles : acl = [e \in listed |-> role]
    /\ clients = [s \in Clients |-> [clientId |-> s, email |-> "a@x.com", agentId |-> 7]]

NextEmbed ==
    \/ \E p \in Procs : EmbedLoginVerify(p)
    \/ \E p \in Procs : EmbedLoginGenerateToken(p)
    \/ \E p \in Procs : Respond(p)
    \/ Tick

SpecEmbed == InitEmbed /\ [][NextEmbed]_vars

----------------------------------------------------------------------------
(* Specification of the token lifecycle *)

InitToken ==
    /\ InitCommon
    /\ \E off \in BOOLEAN :
        config = [BaseConfig EXCEPT !.disable_persistence = off,
                                    !.roleOverrides = [r \in {RoleAgent} |-> 2]]
    /\ acl = [e \in {"b@x.com"} |-> RoleAgent]
    /\ clients = [s \in Clients |-> [clientId |-> s, email |-> "a@x.com", agentId |-> 7]]

NextToken ==
    \/ \E p \in Procs : GenerateTokenCall(p)
    \/ \E p \in Procs : RefreshCheck(p)
    \/ \E p \in Procs : RefreshGenerateToken(p)
    \/ \E p \in Procs : RefreshRevoke(p)
    \/ \E p \in Procs : Logout(p)
    \/ \E p \in Procs : IsRevokedCall(p)
    \/ CleanupExpired
    \/ \E p \in Procs : Respond(p)
    \/ \E p \in Procs : RespondHold(p)
    \/ Tick

SpecToken == InitToken /\ [][NextToken]_vars

----------------------------------------------------------------------------
(* Specification of token issuance: roles and lifetimes *)

InitIssue ==
    /\ InitCommon
    /\ \E off \in BOOLEAN, overridden \in SUBSET Roles :
        config = [BaseConfig EXCEPT !.disable_persistence = off,
                                    !.roleOverrides = [r \in overridden |-> 2]]
    /\ \E listed \in SUBSET {"b@x.com"}, role \in Roles :
        acl = [e \in listed |-> role]
    /\ clients = [s \in Clients |-> [clientId |-> s, email |-> "a@x.com", agentId |-> 7]]

\* a token issuance shares no state with another one: one request at a time
\* is followed
NextIssue ==
    \/ \E p \in AuthProcs : IssueCall(p)
    \/ \E p \in AuthProcs : RefreshCheck(p)
    \/ \E p \in AuthProcs : RefreshGenerateToken(p)
    \/ \E p \in AuthProcs : RefreshRevoke(p)
    \/ \E p \in AuthProcs : RespondHold(p)
    \/ \E p \in AuthProcs : Respond(p)

SpecIssue == InitIssue /\ [][NextIssue]_vars

----------------------------------------------------------------------------
(* Specification of refresh under a changing access-control store *)

\* The access-control store is a database table that generateToken only
\* reads (aclRepo.getUserAcl); its rows are edited outside AuthService, at
\* any time between two requests or two awaits.
AclSet(email, role) ==
    /\ acl' = [e \in DOMAIN acl \cup {email} |-> IF e = email THEN role ELSE acl[e]]
    /\ acl' # acl
    /\ UNCHANGED <<now, config, clients, otpVars, tokenVars, call>>

InitRefresh ==
    /\ InitCommon
    /\ \E off \in BOOLEAN : config = [BaseConfig EXCEPT !.disable_persistence = off]
    /\ acl = [e \in {} |-> NoRole]
    /\ clients = [s \in Clients |-> [clientId |-> s, email |-> "a@x.com", agentId |-> 7]]

NextRefresh ==
    \/ \E p \in AuthProcs : GenerateTokenCall(p)
    \/ \E p \in AuthProcs : RefreshCheck(p)
    \/ \E p \in AuthProcs : RefreshGenerateToken(p)
    \/ \E p \in AuthProcs : RefreshRevoke(p)
    \/ \E p \in AuthProcs : RespondHold(p)
    \/ \E p \in AuthProcs : Respond(p)
    \/ \E email \in Emails, role \in Roles : AclSet(email, role)

SpecRefresh == InitRefresh /\ [][NextRefresh]_vars

----------------------------------------------------------------------------
(* Specification of signup and password login *)

InitAuth ==
    /\ InitCommon
    /\ config = BaseConfig
    /\ acl = [e \in {} |-> NoRole]
    /\ clients = [s \in Clients |-> [clientId |-> s, email |-> "a@x.com", agentId |-> 7]]

NextAuth ==
    \/ \E p \in AuthProcs : SignupRegister(p)
    \/ \E p \in AuthProcs : SignupCreate(p)
    \/ \E p \in AuthProcs : SignupFilter(p)
    \/ \E p \in AuthProcs : SignupUpdate(p)
    \/ \E p \in AuthProcs : SignupGet(p)
    \/ \E p \in AuthProcs : LoginNoPassword(p)
    \/ \E p \in AuthProcs : LoginStrapi(p)
    \/ \E p \in AuthProcs : LoginFilter(p)
    \/ \E p \in AuthProcs : Respond(p)

SpecAuth == InitAuth /\ [][NextAuth]_vars

----------------------------------------------------------------------------
(* Specification of the login strategies: password login, signup, OTP       *)
(* request and consume, magic-link consume, embed login                     *)

InitLogin ==
    /\ InitCommon
    /\ \E off \in BOOLEAN : config = [BaseConfig EXCEPT !.disable_persistence = off]
    /\ acl = [e \in {"b@x.com"} |-> RoleAgent]
    /\ clients = [s \in Clients |-> [clientId |-> s, email |-> "a@x.com", agentId |-> 7]]

\* which issuer a strategy takes its token from does not depend on the other
\* requests: one request at a time is followed
NextLogin ==
    \/ \E p \in AuthProcs : SignupRegister(p)
    \/ \E p \in AuthProcs : SignupCreate(p)
    \/ \E p \in AuthProcs : SignupFilter(p)
    \/ \E p \in AuthProcs : SignupUpdate(p)
    \/ \E p \in AuthProcs : SignupGet(p)
    \/ \E p \in AuthProcs : LoginNoPassword(p)
    \/ \E p \in AuthProcs : LoginStrapi(p)
    \/ \E p \in AuthProcs : LoginFilter(p)
    \/ \E p \in AuthProcs, s \in Clients : SendOtpRate(p, s)
    \/ \E p \in AuthProcs : SendOtpSetCode(p)
    \/ \E p \in AuthProcs : SendOtpSetMark(p)
    \/ \E p \in AuthProcs : SendOtpSend(p)
    \/ \E p \in AuthProcs, c \in Codes : UseOtpGet(p, c)
    \/ \E p \in AuthProcs : UseOtpClientsGet(p)
    \/ \E p \in AuthProcs : UseOtpGenerateToken(p)
    \/ \E p \in AuthProcs : UseOtpReturn(p)
    \/ \E p \in AuthProcs : UseRepliersTokenGet(p)
    \/ \E p \in AuthProcs : UseRepliersTokenRate(p)
    \/ \E p \in AuthProcs : UseRepliersTokenClientsGet(p)
    \/ \E p \in AuthProcs : UseRepliersTokenGenerateToken(p)
    \/ \E p \in AuthProcs : EmbedLoginVerify(p)
    \/ \E p \in AuthProcs : EmbedLoginGenerateToken(p)
    \/ \E p \in AuthProcs : Respond(p)
    \/ Tick

SpecLogin == InitLogin /\ [][NextLogin]_vars

----------------------------------------------------------------------------
(* Specification of the JWT middleware *)

InitJwt ==
    /\ InitCommon
    /\ config = BaseConfig
    /\ acl = [e \in {} |-> NoRole]
    /\ clients = [s \in Clients |-> [clientId |-> s, email |-> "a@x.com", agentId |-> 7]]

\* the middleware keeps no state between requests: one request at a time is
\* followed
NextJwt ==
    \/ \E p \in AuthProcs : JwtAuthenticate(p)
    \/ \E p \in AuthProcs : JwtNext(p)
    \/ \E p \in AuthProcs : Respond(p)

SpecJwt == InitJwt /\ [][NextJwt]_vars

----------------------------------------------------------------------------
(* Claims about the OTP flow (checked under SpecOtp) *)

\* C1: OTP codes are single-use in sequence. A useOtp of a code that starts
\* after a useOtp of that code has succeeded, with no sendOtp storing the code
\* in between, fails with 403 and issues no token; a call that ends with 200
\* returns a token.
C1_SingleUseInSequence ==
    \A p \in Procs :
        call[p].op = "useOtp" =>
            /\ call[p].afterUse =>
                  call[p].pc = "done" /\ call[p].status = 403 /\ call[p].token = NoToken
            /\ (call[p].pc = "done" /\ call[p].status = 200) => call[p].token # NoToken

\* a second useOtp of a consumed code has been rejected while the first
\* call's token was issued
C1_Witness ==
    \E p \in Procs :
        /\ call[p].op = "useOtp" /\ call[p].afterUse
        /\ call[p].pc = "done" /\ call[p].status = 403
        /\ consumed[call[p].code]

\* C2: for any interleaving of concurrent useOtp calls on the same live code,
\* at most one call succeeds and at most one token is issued for that code.
C2_AtMostOneTokenPerCode == \A c \in Codes : uses[c] <= 1

\* C3: a sendOtp whose cooldown check finds the subject's mark live fails with
\* 403, stores no code, does not rewrite the mark and sends no message.
C3_CooldownBlocksSend ==
    [][\A p \in Procs :
        (/\ call[p] = Idle
         /\ call'[p].op = "sendOtp"
         /\ KeyvGet(db, otpSentKey(call'[p].clientId), now) # NoEntry)
        => (/\ call'[p].pc = "done" /\ call'[p].status = 403
            /\ ~call'[p].stored /\ ~call'[p].marked /\ ~call'[p].sent
            /\ db' = db)]_vars

\* a sendOtp has been rejected while the mark is live and the subject has no
\* live code left (expired or consumed)
C3_Witness ==
    \E p \in Procs :
        /\ call[p].op = "sendOtp" /\ call[p].pc = "done" /\ call[p].status = 403
        /\ KeyvGet(db, otpSentKey(call[p].clientId), now) # NoEntry
        /\ \A c \in Codes : KeyvGet(db, CodeKey(c), now) = NoEntry
        /\ \E c \in Codes : db[CodeKey(c)] # NoEntry \/ consumed[c]

\* the sendOtp calls for subject s that passed the cooldown check
Racers(s) ==
    {p \in Procs : call[p].op = "sendOtp" /\ call[p].clientId = s /\ call[p].status # 403}

\* C4: when two sendOtp calls for a subject race past the cooldown check, at
\* most two codes are stored and sent, and each stored code is consumed at
\* most once.
C4_RaceBoundedSingleUse ==
    \A s \in Clients :
        Cardinality(Racers(s)) <= 2 =>
            /\ Cardinality({p \in Racers(s) : call[p].stored}) <= 2
            /\ Cardinality({p \in Racers(s) : call[p].sent}) <= 2
            /\ \A c \in Codes : uses[c] <= 1

----------------------------------------------------------------------------
(* Claims about the token lifecycle (checked under SpecToken) *)

\* C5: refresh on claims that lack iat or exp fails with an Internal error
\* (500), mints no token and writes no revocation entry.
C5_RefreshWithoutExpiryInfoFails ==
    [][\A p \in Procs :
        (/\ call[p] = Idle
         /\ call'[p].op = "refresh"
         /\ (call'[p].payload.iat = 0 \/ call'[p].payload.exp = 0))
        => (/\ call'[p].pc = "done" /\ call'[p].status = 500
            /\ call'[p].token = NoToken
            /\ blocklist' = blocklist /\ held' = held)]_vars

\* a refresh of claims without iat (but with exp) has failed
C5_Witness ==
    \E p \in Procs :
        /\ call[p].op = "refresh" /\ call[p].pc = "done" /\ call[p].status = 500
        /\ call[p].payload.iat = 0 /\ call[p].payload.exp # 0

\* C6 as stated: the expires-at of every token minted by refresh is not later
\* than the expires-at of the token that was refreshed.
C6_RefreshKeepsExpiresAt ==
    \A p \in Procs :
        (call[p].op = "refresh" /\ call[p].token # NoToken)
        => call[p].token.exp <= call[p].payload.exp

\* C6 amended: every token minted by refresh has the lifetime (exp - iat) of
\* the token that was refreshed, counted from the time of the refresh, so its
\* expires-at is never earlier than that of the refreshed token.
C6_RefreshKeepsLifetime ==
    \A p \in Procs :
        (call[p].op = "refresh" /\ call[p].token # NoToken)
        => /\ call[p].token.exp - call[p].token.iat
                = call[p].payload.exp - call[p].payload.iat
           /\ call[p].token.exp >= call[p].payload.exp

\* a refresh made after the issued-at of the old token has minted a token that
\* expires later than the old one
C6_Witness ==
    \E p \in Procs :
        /\ call[p].op = "refresh" /\ call[p].token # NoToken
        /\ call[p].token.iat > call[p].payload.iat
        /\ call[p].token.exp > call[p].payload.exp

\* process p's refresh returns its new token in this step
RefreshReturns(p) ==
    /\ call[p].op = "refresh" /\ call[p].pc # "done"
    /\ call'[p].op = "refresh" /\ call'[p].pc = "done" /\ call'[p].status = 200

\* C7 as stated: whenever refresh returns a token for claims with a jti, the
\* entry jti -> old exp has been written and isRevoked(old jti) is true at
\* that moment; without a jti nothing is revoked and refresh succeeds.
C7_RefreshRevokesOldToken ==
    [][\A p \in Procs : RefreshReturns(p) =>
        LET jti == call[p].payload.jti
            exp == call[p].payload.exp
        IN  IF jti # 0
            THEN /\ blocklist'[jti] = exp
                 /\ isRevoked(BlocklistIsRevoked(blocklist', jti, now'))
            ELSE blocklist' = blocklist]_vars

\* C7 amended: as C7, with isRevoked(old jti) true at the return provided the
\* old token's exp is still in the future then.
C7_RefreshRevokesUnexpiredToken ==
    [][\A p \in Procs : RefreshReturns(p) =>
        LET jti == call[p].payload.jti
            exp == call[p].payload.exp
        IN  IF jti # 0
            THEN /\ blocklist'[jti] = exp
                 /\ now' < exp => isRevoked(BlocklistIsRevoked(blocklist', jti, now'))
            ELSE blocklist' = blocklist]_vars

\* a refresh of claims with a jti has returned and the old jti is revoked
C7_Witness ==
    \E p \in Procs :
        /\ call[p].op = "refresh" /\ call[p].pc = "done" /\ call[p].status = 200
        /\ call[p].payload.jti # 0
        /\ blocklist[call[p].payload.jti] = call[p].payload.exp
        /\ isRevoked(BlocklistIsRevoked(blocklist, call[p].payload.jti, now))

\* C8: once a jti has been revoked with expires-at exp (by logout or refresh),
\* isRevoked(jti) is true at every time before exp and false at every time
\* after exp, however often the revocation is repeated.
C8_RevokedUntilExpiry ==
    \A j \in Jtis :
        revokedLog[j] # 0 =>
            /\ now < revokedLog[j] => isRevoked(BlocklistIsRevoked(blocklist, j, now))
            /\ now > revokedLog[j] => ~isRevoked(BlocklistIsRevoked(blocklist, j, now))

\* a revocation has been repeated; one revoked jti is still reported revoked
\* before its expiry and another is no longer reported after its expiry
C8_Witness ==
    /\ \E p \in Procs : call[p].op = "logout" /\ call[p].again
    /\ \E j \in Jtis :
        /\ revokedLog[j] # 0 /\ now < revokedLog[j]
        /\ isRevoked(BlocklistIsRevoked(blocklist, j, now))
    /\ \E j \in Jtis :
        /\ revokedLog[j] # 0 /\ now > revokedLog[j]
        /\ ~isRevoked(BlocklistIsRevoked(blocklist, j, now))

----------------------------------------------------------------------------
(* Claims about signup and password login (checked under SpecAuth) *)

\* a signup or password login that returned {token, profile}
ReturnedProfile(p) ==
    /\ call[p].op \in {"signup", "login"}
    /\ call[p].pc = "done" /\ call[p].status = 200
    /\ call[p].strapiUser # Undefined

\* C9: the profile returned by a successful signup or password login has
\* only keys of userProfilKeys, and every allow-listed key that both the
\* provider user and the registry record have carries the provider's value.
C9_ProfileAllowListProviderWins ==
    \A p \in Procs : ReturnedProfile(p) =>
        /\ DOMAIN call[p].profile \subseteq userProfilKeys
        /\ \A k \in userProfilKeys \cap DOMAIN call[p].strapiUser
                                    \cap DOMAIN call[p].userInfo :
                call[p].profile[k] = call[p].strapiUser[k]

\* a signup has returned a profile where provider and registry disagree on an
\* allow-listed key and both carry keys outside the allow-list
C9_Witness ==
    \E p \in Procs :
        /\ ReturnedProfile(p) /\ call[p].op = "signup"
        /\ "email" \in DOMAIN call[p].userInfo
        /\ call[p].userInfo.email # call[p].strapiUser.email
        /\ "agentId" \in DOMAIN call[p].userInfo
        /\ "provider" \in DOMAIN call[p].strapiUser
        /\ call[p].profile.email = call[p].strapiUser.email

\* C10 as stated: once registration has succeeded, a 409 from clients.create
\* always leads to filter, update, get and a successful {token, profile}.
C10_ConflictAlwaysSucceeds ==
    \A p \in Procs :
        (call[p].op = "signup" /\ call[p].conflict /\ call[p].pc = "done")
        => /\ call[p].status = 200
           /\ call[p].ops = <<"create", "filter", "update", "get">>
           /\ call[p].token # NoToken

\* C10 amended: a 409 from clients.create is not rethrown; it always leads to
\* the lookup by email. The call returns {token, profile} exactly when the
\* lookup finds a record and update and get succeed (after create, filter,
\* update, get); when the lookup finds no record it fails with 500, and a
\* failure of filter, update or get is propagated.
C10_ConflictFallsBackToUpdate ==
    \A p \in Procs :
        (call[p].op = "signup" /\ call[p].conflict) =>
            /\ call[p].ops # <<>> /\ call[p].ops[1] = "create"
            /\ call[p].pc = "done" =>
                /\ Len(call[p].ops) >= 2 /\ call[p].ops[2] = "filter"
                /\ call[p].status \in {200, 500} \cup {ErrStatus(e) : e \in RegistryErrors}
                /\ call[p].status = 200 =>
                    /\ call[p].ops = <<"create", "filter", "update", "get">>
                    /\ call[p].token = StrapiJwt
                    /\ call[p].profile = mergeProfile(call[p].userInfo, call[p].strapiUser)
                /\ call[p].existingUser = Undefined => call[p].status = 500

\* a signup whose create met a 409 has returned {token, profile} after the
\* update of the existing record
C10_Witness ==
    \E p \in Procs :
        /\ call[p].op = "signup" /\ call[p].conflict
        /\ call[p].pc = "done" /\ call[p].status = 200
        /\ call[p].ops = <<"create", "filter", "update", "get">>

\* a signup or password login whose call to the identity provider failed
ProviderFailed(p) ==
    /\ call[p].op \in {"signup", "login"}
    /\ call[p].strapiCalls > 0
    /\ call[p].provider # ProviderOk

\* C11: when the identity provider's registration fails during signup, the
\* error StrapiService.register raised reaches the caller unchanged, no
\* registry operation (create, filter, update, get) is performed and no token
\* or profile is returned.
C11_RegisterErrorPropagates ==
    \A p \in Procs :
        (ProviderFailed(p) /\ call[p].op = "signup") =>
            /\ call[p].pc = "done"
            /\ call[p].status = (IF call[p].provider = 400 THEN 400 ELSE 503)
            /\ call[p].ops = <<>>
            /\ call[p].token = NoToken /\ call[p].profile = Undefined
            /\ call[p].userInfo = Undefined

\* a signup has failed at registration with the provider's 400 and has
\* called the registry for nothing
C11_Witness ==
    \E p \in Procs :
        /\ ProviderFailed(p) /\ call[p].op = "signup"
        /\ call[p].provider = 400 /\ call[p].status = 400 /\ call[p].ops = <<>>

\* C12: a password login with wrong credentials fails with 401, returns no
\* token and makes no registry call.
C12_WrongCredentialsUnauthorized ==
    \A p \in Procs :
        (ProviderFailed(p) /\ call[p].op = "login"
            /\ call[p].provider = InvalidCredentials) =>
            /\ call[p].pc = "done" /\ call[p].status = 401
            /\ call[p].token = NoToken /\ call[p].profile = Undefined
            /\ call[p].ops = <<>>

\* a password login has been rejected for its credentials
C12_Witness ==
    \E p \in Procs :
        /\ call[p].op = "login" /\ call[p].password /\ call[p].pc = "done"
        /\ call[p].provider = InvalidCredentials /\ call[p].status = 401

\* C13 as stated: a failure of register or login is mapped by the provider's
\* status, 400 to a validation error (400), 401 to Unauthorized (401), every
\* other failure to 503, and the provider is called exactly once.
C13_ProviderStatusMapping ==
    \A p \in Procs :
        ProviderFailed(p) =>
            /\ call[p].strapiCalls = 1
            /\ call[p].pc = "done"
            /\ call[p].status = (IF call[p].provider \in {400, 401}
                                 THEN call[p].provider ELSE 503)

\* C13 amended: register maps the provider's 400 to a validation error (400)
\* and every other failure, a 401 included, to 503; login maps the provider's
\* 400 to Unauthorized (401) and every other failure, a 401 included, to 503;
\* the provider is called exactly once per request.
C13_ProviderStatusMappingPerCall ==
    \A p \in Procs :
        /\ (call[p].op = "signup" \/ (call[p].op = "login" /\ call[p].password))
                => call[p].strapiCalls = 1
        /\ ProviderFailed(p) =>
            /\ call[p].pc = "done"
            /\ call[p].op = "signup" =>
                    call[p].status = (IF call[p].provider = 400 THEN 400 ELSE 503)
            /\ call[p].op = "login" =>
                    call[p].status = (IF call[p].provider = 400 THEN 401 ELSE 503)

\* a signup or login has met the provider's 401 and failed with 503
C13_Witness ==
    \E p \in Procs :
        /\ ProviderFailed(p) /\ call[p].provider = 401 /\ call[p].status = 503

----------------------------------------------------------------------------
(* Claims about the magic-link flow (checked under SpecMagic) *)

\* a magic-link consume of a message older than the expiry window
ExpiredLink(p) == call[p].op = "useRepliersToken" /\ call[p].expired

\* C14 as stated: a magic-link consume of an expired message ends, with
\* auto-resend enabled, always with 412 after one OTP send, whatever the OTP
\* and cooldown stores hold, and with auto-resend disabled with 403 and no
\* send; no token is issued. (Calls that met a failure of the messaging
\* provider are left aside.)
C14_ExpiredLinkAlwaysRetry ==
    \A p \in Procs :
        ExpiredLink(p) =>
            /\ call[p].token = NoToken
            /\ call[p].pc = "done" =>
                IF config.emailtoken_auto_otp
                THEN call[p].status # 503 => (call[p].status = 412 /\ call[p].sent)
                ELSE call[p].status = 403 /\ ~call[p].stored /\ ~call[p].sent

\* C14 amended: with auto-resend enabled the consume of an expired message
\* runs sendOtp for the message's subject; it ends with 403, nothing stored or
\* sent, exactly when the subject's cooldown mark is live, otherwise it stores
\* the code and the mark and ends with 412 after one send, or with the
\* messaging provider's failure. With auto-resend disabled it ends with 403
\* and stores and sends nothing. No token is issued.
C14_ExpiredLinkResend ==
    [][\A p \in Procs :
        /\ (ExpiredLink(p) /\ call[p].pc = "rate" /\ call'[p] # call[p]) =>
                (KeyvGet(db, otpSentKey(call[p].clientId), now) # NoEntry
                    <=> call'[p].pc = "done")
        /\ (call'[p].op = "useRepliersToken" /\ call'[p].expired
                /\ call'[p].pc = "done" /\ call[p].pc # "done") =>
            /\ call'[p].token = NoToken
            /\ IF ~config.emailtoken_auto_otp
               THEN /\ call'[p].status = 403 /\ db' = db
                    /\ ~call'[p].stored /\ ~call'[p].marked /\ ~call'[p].sent
               ELSE \/ /\ call[p].pc = "rate"
                       /\ call'[p].status = 403 /\ db' = db
                       /\ ~call'[p].stored /\ ~call'[p].marked /\ ~call'[p].sent
                    \/ /\ call[p].pc = "send"
                       /\ call'[p].stored /\ call'[p].marked
                       /\ call'[p].clientId = call'[p].message.clientId
                       /\ \/ call'[p].status = 412 /\ call'[p].sent
                          \/ call'[p].status = 503 /\ ~call'[p].sent]_vars

\* one consume of an expired message has ended with 412 after its send, and
\* another, made while the cooldown mark of that send is live, with 403
C14_Witness ==
    /\ config.emailtoken_auto_otp
    /\ \E p \in Procs :
        /\ ExpiredLink(p) /\ call[p].pc = "done"
        /\ call[p].status = 412 /\ call[p].sent
    /\ \E p \in Procs :
        /\ ExpiredLink(p) /\ call[p].pc = "done"
        /\ call[p].status = 403 /\ ~call[p].stored
        /\ KeyvGet(db, otpSentKey(call[p].clientId), now) # NoEntry

\* the magic-link consume that found no message for its token
NoMessageFound(p) ==
    /\ call[p].op = "useRepliersToken"
    /\ call[p].messagesCalls = 1 /\ call[p].message = Undefined

----------------------------------------------------------------------------
(* Claims about the embed login (checked under SpecEmbed) *)

\* C15: an embed login whose signature does not verify against the supplied
\* context blob (a signature over another blob included) fails with 401; the
\* context is never decoded, no token is issued and no partner-facing
\* signature is derived.
C15_InvalidSignatureRejected ==
    \A p \in Procs :
        (/\ call[p].op = "embedLogin"
         /\ call[p].signature # Hmac(call[p].context, config.boss_system_key)) =>
            /\ call[p].pc = "done" /\ call[p].status = 401
            /\ call[p].decodedContext = Undefined
            /\ call[p].token = NoToken
            /\ call[p].clientSignature = Undefined

\* an embed login has been rejected whose signature the partner computed
\* with the system key over another blob than the one supplied
C15_Witness ==
    \E p \in Procs :
        /\ call[p].op = "embedLogin" /\ call[p].pc = "done" /\ call[p].status = 401
        /\ call[p].signature.key = config.boss_system_key
        /\ call[p].signature.hmac # call[p].context
        /\ call[p].signature.hmac \in ContextBlobs

\* C16: signatures are not replayable: of the embedLogin calls that present
\* the same (context, signature) pair at most one obtains a token.
C16_SignatureNotReplayable ==
    \A p, q \in Procs :
        (/\ call[p].op = "embedLogin" /\ call[p].status = 200
         /\ call[q].op = "embedLogin" /\ call[q].status = 200
         /\ call[p].context = call[q].context
         /\ call[p].signature = call[q].signature) => p = q

----------------------------------------------------------------------------
(* Claims about token issuance (checked under SpecIssue) *)

\* a finished generateToken call with its input
Issued(p) == call[p].op = "generateToken" /\ "input" \in DOMAIN call[p]

\* the role the claim gives the token of call p: the access-control entry's
\* role (persistence enabled), else the role in the claims, else the default
ClaimedRole(p) ==
    LET input == call[p].input IN
    IF ~config.disable_persistence /\ input.email \in DOMAIN acl THEN acl[input.email]
    ELSE IF input.role # NoRole THEN input.role
    ELSE RoleUser

\* C17: the role of an issued token is, with persistence enabled, the
\* access-control entry's role for the email if there is one, else the role
\* in the claims, else the default role; with persistence disabled no
\* access-control lookup is made and the token carries the caller's role, or
\* the default role when the caller gave none.
C17_IssuedRole ==
    \A p \in Procs :
        Issued(p) =>
            /\ call[p].token.role = ClaimedRole(p)
            /\ call[p].lookups = (IF config.disable_persistence THEN 0 ELSE 1)

\* C18: the lifetime of an issued token is the explicit expiry when the
\* caller passes one (refresh passes exp - iat of the presented claims), else
\* the override expiry of the token's effective role when it has one, else
\* the default expiry, for every role and in both persistence modes.
C18_IssuedLifetime ==
    \A p \in Procs :
        /\ Issued(p) =>
            call[p].token.exp - call[p].token.iat =
                (IF call[p].expiresIn # NoExpiresIn THEN call[p].expiresIn.seconds
                 ELSE IF ClaimedRole(p) \in DOMAIN config.roleOverrides
                 THEN config.roleOverrides[ClaimedRole(p)]
                 ELSE config.jwt_expire)
        /\ (call[p].op = "refresh" /\ call[p].token # NoToken) =>
            call[p].token.exp - call[p].token.iat
                = call[p].payload.exp - call[p].payload.iat

----------------------------------------------------------------------------
(* Claims about the login strategies together (checked under SpecLogin) *)

\* a token as generateToken mints it: the configured issuer, a token id of
\* its own, the claims of the payload, issued-at and expires-at
MintedByIssuer(token) ==
    /\ DOMAIN token = {"sub", "email", "role", "iss", "jti", "iat", "exp"}
    /\ token.iss = "issuer"
    /\ token.jti \in Jtis
    /\ token.iat <= now /\ token.exp > token.iat

\* a login strategy that returned a token to its caller
LoginSucceeded(p) ==
    /\ call[p].op \in {"login", "signup", "useOtp", "useRepliersToken", "embedLogin"}
    /\ call[p].pc = "done" /\ call[p].status = 200
    /\ call[p].op = "login" => call[p].password

----------------------------------------------------------------------------
(* More claims about the embed login (checked under SpecEmbed) *)

\* an embed login that returned {jwt, clientSignature}
EmbedLoginSucceeded(p) ==
    call[p].op = "embedLogin" /\ call[p].pc = "done" /\ call[p].status = 200

\* C21 as stated: a successful embed login always issues a token whose role
\* claim is Agent, for every embedded identity and every state of the
\* access-control store.
C21_EmbedRoleAlwaysAgent ==
    \A p \in Procs : EmbedLoginSucceeded(p) => call[p].token.role = RoleAgent

\* C21 amended: the token of a successful embed login carries the role Agent
\* unless persistence is enabled and the access-control store has an entry
\* for the embedded email; then it carries that entry's role.
C21_EmbedRoleAgentUnlessAcl ==
    \A p \in Procs : EmbedLoginSucceeded(p) =>
        LET email == call[p].decodedContext.user.email IN
        call[p].token.role =
            (IF ~config.disable_persistence /\ email \in DOMAIN acl
             THEN acl[email] ELSE RoleAgent)

\* embed logins have succeeded, one for an identity without access-control
\* entry (role Agent) and one for an identity whose entry names another role
C21_Witness ==
    /\ \E p \in Procs :
        /\ EmbedLoginSucceeded(p) /\ call[p].token.role = RoleAgent
        /\ call[p].token.email \notin DOMAIN acl
    /\ \E p \in Procs :
        /\ EmbedLoginSucceeded(p) /\ call[p].token.email \in DOMAIN acl
        /\ call[p].token.role = acl[call[p].token.email]
        /\ ~config.disable_persistence

----------------------------------------------------------------------------
(* Claims about refresh (checked under SpecRefresh and SpecToken) *)

\* a refresh that has minted its new token
RefreshMinted(p) ==
    call[p].op = "refresh" /\ call[p].token # NoToken

\* C22: refresh re-signs the presented claims minus {iat, exp, iss, jti}:
\* sub, email and role appear in the new token with the value they have in
\* the old one (the role is not recomputed), and the new token carries a jti
\* different from the old one, which the revocation of the old jti does not
\* revoke.
C22_RefreshKeepsClaims ==
    \A p \in Procs : RefreshMinted(p) =>
        /\ call[p].token.sub = call[p].payload.sub
        /\ call[p].token.email = call[p].payload.email
        /\ call[p].token.role = call[p].payload.role
        /\ call[p].token.jti # call[p].payload.jti
        /\ blocklist[call[p].token.jti] = 0

----------------------------------------------------------------------------
(* More claims about the OTP flow (checked under SpecOtp) *)

\* request p takes a step of useOtp: it starts, or moves on from an await
UseOtpStep(p) ==
    call'[p].op = "useOtp" /\ (call[p].op # "useOtp" \/ call'[p].pc # call[p].pc)

\* a useOtp call that failed after the code lookup: the registry get or the
\* token issuance threw
UseOtpFailedAfterLookup(p) ==
    call[p].op = "useOtp" /\ call[p].pc = "done" /\ call[p].status \in {500, 503}

\* C23: a useOtp call that fails after the code lookup (registry get or token
\* issuance fails) leaves the OTP record in the store: no step of useOtp
\* changes the store except the delete, which is taken only with the token
\* issued and ends the call successfully.
C23_FailedConsumeKeepsRecord ==
    [][\A p \in Procs : UseOtpStep(p) =>
        IF call[p].op = "useOtp" /\ call[p].pc = "delete"
        THEN call[p].token # NoToken /\ call'[p].status = 200
        ELSE db' = db /\ call'[p].status \in {0, 403, 500, 503}]_vars

\* a consume of a code failed at the token issuance, and the same code has
\* been consumed successfully by another call
C23_Witness ==
    \E p, q \in Procs :
        /\ UseOtpFailedAfterLookup(p) /\ call[p].status = 500
        /\ call[q].op = "useOtp" /\ call[q].pc = "done" /\ call[q].status = 200
        /\ call[q].code = call[p].code
        /\ uses[call[p].code] = 1

\* a sendOtp call whose message delivery failed
SendOtpDeliveryFailed(p) ==
    /\ call[p].op = "sendOtp" /\ call[p].pc = "done" /\ call[p].status = 503

\* C24: sendOtp writes the code record and the cooldown mark before it calls
\* the messaging provider.  When the delivery fails the call fails with both
\* writes made and the store left as it is: the mark stays for its full
\* cooldown TTL, and a sendOtp for that subject that starts while the mark is
\* live is rejected with 403 although no message was delivered.
C24_FailedDeliveryKeepsCooldown ==
    [][\A p \in Procs :
        /\ (call[p].op = "sendOtp" /\ call[p].pc = "send" /\ call'[p].pc = "done")
            => /\ call[p].stored /\ call[p].marked
               /\ db[otpSentKey(call[p].clientId)] # NoEntry
               /\ db[otpSentKey(call[p].clientId)].expires
                    = db[otpSentKey(call[p].clientId)].value + config.otp_resend_ttl_ms
               /\ (call'[p].status = 503 => ~call'[p].sent /\ db' = db)
        /\ \A q \in Procs :
            (/\ SendOtpDeliveryFailed(p)
             /\ call[q] = Idle /\ call'[q].op = "sendOtp"
             /\ call'[q].clientId = call[p].clientId
             /\ KeyvGet(db, otpSentKey(call[p].clientId), now) # NoEntry)
            => call'[q].pc = "done" /\ call'[q].status = 403]_vars

\* the delivery of a sendOtp failed, no message was delivered to the subject,
\* and another sendOtp for the subject has been rejected under the live mark
C24_Witness ==
    \E p, q \in Procs :
        /\ SendOtpDeliveryFailed(p) /\ ~call[p].sent
        /\ call[q].op = "sendOtp" /\ call[q].pc = "done" /\ call[q].status = 403
        /\ call[q].clientId = call[p].clientId
        /\ KeyvGet(db, otpSentKey(call[p].clientId), now) # NoEntry
        /\ KeyvGet(db, CodeKey(call[p].code), now) # NoEntry

----------------------------------------------------------------------------
(* More claims about the magic-link flow (checked under SpecMagic) *)

\* request p takes a step of useRepliersToken: it starts, or moves on from
\* an await
UseRepliersTokenStep(p) ==
    /\ call'[p].op = "useRepliersToken"
    /\ (call[p].op # "useRepliersToken" \/ call'[p].pc # call[p].pc)

\* the messaging provider returned a message for the presented token
MessageFound(c) == c.message # Undefined /\ c.message # Null

\* C25: a magic-link token is accepted exactly when now - sentAt is at most
\* the expiry window; the steps of an accepted consume change no store (OTP
\* records, cooldown marks, revocation entries) and send no message; its
\* success issues a token with a fresh id.  No state is consulted or written,
\* so the same magic-link token is accepted on every call inside the window.
C25_MagicLinkReusableInsideWindow ==
    [][\A p \in Procs : UseRepliersTokenStep(p) =>
        /\ (call[p] = Idle /\ MessageFound(call'[p])) =>
                (call'[p].pc = "clientsGet"
                    <=> now - call'[p].message.sentDateTime <= config.emailtoken_expire)
        /\ call'[p].pc \in {"clientsGet", "generateToken"} \/ call'[p].status = 200 =>
                /\ db' = db /\ blocklist' = blocklist /\ revokedLog' = revokedLog
                /\ ~call'[p].stored /\ ~call'[p].marked /\ ~call'[p].sent
                /\ ~call'[p].expired
        /\ call'[p].status = 200 =>
                /\ call'[p].token # NoToken
                /\ call'[p].token.jti \in FreeJtis]_vars

\* two consumes of the same magic-link token have both succeeded, each with a
\* token of its own; no time has passed since the first request started, so
\* both were presented when the age of the message equalled the window
C25_Witness ==
    \E p, q \in Procs :
        /\ p # q
        /\ call[p].op = "useRepliersToken" /\ call[p].status = 200
        /\ call[q].op = "useRepliersToken" /\ call[q].status = 200
        /\ call[p].message = call[q].message
        /\ now - call[p].message.sentDateTime = config.emailtoken_expire
        /\ call[p].token.jti # call[q].token.jti
        /\ call[p].token.iat = now /\ call[q].token.iat = now
        /\ \A t \in 0..now : t >= 1 => t = now

----------------------------------------------------------------------------
(* Claims about the JWT middleware (checked under SpecJwt) *)

\* the provider validated the bearer token of request p
ProviderValidated(p) ==
    call[p].reply # Undefined /\ "data" \in DOMAIN call[p].reply

\* C27: the downstream handler is invoked exactly once when the identity
\* provider validates the bearer token and never otherwise; a missing or
\* non-Bearer Authorization header yields 401 without any provider call, a
\* provider 401 yields 401, any other provider failure yields 503, and an
\* error raised by the downstream handler is propagated unchanged.
C27_JwtGating ==
    \A p \in Procs : (call[p].op = "jwt" /\ call[p].pc = "done") =>
        LET c == call[p]
            h == c.authHeader
            bearer == /\ h # Undefined
                      /\ Len(h.chars) >= 7
                      /\ \A i \in 1..7 : h.chars[i] = BearerPrefix[i]
        IN  /\ c.nextCalls = (IF ProviderValidated(p) THEN 1 ELSE 0)
            /\ ~bearer =>
                    c.providerCalls = 0 /\ c.status = 401 /\ c.thrown.statusCode = 401
            /\ bearer => c.providerCalls = 1
            /\ (bearer /\ ~ProviderValidated(p)) =>
                    LET st == IF c.reply.response = Undefined THEN 0
                              ELSE c.reply.response.status
                    IN  /\ c.status = (IF st = 401 THEN 401 ELSE 503)
                        /\ c.thrown.statusCode = c.status
            /\ (ProviderValidated(p) /\ c.raised # Undefined) => c.thrown = c.raised
            /\ (ProviderValidated(p) /\ c.raised = Undefined) => c.thrown = Undefined

\* a validated request whose downstream handler failed with the error of an
\* HTTP call that the provider had answered with 401: it left the middleware
\* as thrown
C27_Witness ==
    \E p \in Procs :
        /\ call[p].op = "jwt" /\ call[p].pc = "done"
        /\ ProviderValidated(p) /\ call[p].nextCalls = 1
        /\ call[p].raised = [response |-> [status |-> 401]]
        /\ call[p].thrown = call[p].raised

\* C28: after the middleware authenticates a request, ctx.state.user.sub is
\* the provider user id as a string and ctx.state.user.role is the type
\* string of the provider role, or "authenticated" when the provider user has
\* no role, for every provider user record.
C28_StateUserSubAndRole ==
    \A p \in Procs : (call[p].op = "jwt" /\ ProviderValidated(p)) =>
        LET userData == call[p].reply.data
            hasType == /\ "role" \in DOMAIN userData
                       /\ userData.role # Null
                       /\ "type" \in DOMAIN userData.role
        IN  /\ call[p].user.sub = String(ToString(userData.id))
            /\ call[p].user.role =
                    (IF hasType THEN String(userData.role.type)
                     ELSE String("authenticated"))

====
